---- MODULE Spec2Model ----
(***************************************************************************)
(* Event service: idempotency Store, background Worker and the POST        *)
(* /events, GET /ready handlers of App.                                    *)
(*                                                                         *)
(* Go keeps *model.Event pointers in the Store map and in the worker       *)
(* channel.  Every POST /events handler allocates at most one Event        *)
(* (app.go:128), so the heap is modelled as one cell per request and a     *)
(* pointer is the number of the request that allocated the cell.           *)
(***************************************************************************)
EXTENDS Integers, Sequences, FiniteSets, TLC

\* ---- bounds -------------------------------------------------------------
\* number of POST /events requests served during one run
NReq == 2
\* number of distinct non-empty event ids the clients use
NKeys == 2
\* number of distinct payloads the clients send
NPayloads == 2
\* capacity of the worker channel (worker.New makes it 100, store.go:92;
\* scaled down so that a full channel is reachable with NReq requests)
QueueCap == 1

\* ---- values -------------------------------------------------------------
\* the empty string event_id
\* longest text of PROCESSING_DELAY_MS
MaxLen == 2

EmptyID == 0

Reqs == 1..NReq
Keys == 1..NKeys
\* the event ids a request body can carry: "" or a client's id
IDs == Keys \cup {EmptyID}
Payloads == 1..NPayloads

\* nil pointer / absent map entry
Nil == 0
StatusAccepted == "accepted"
StatusProcessed == "processed"
StatusBadRequest == 400
StatusConflict == 409
StatusAccepted202 == 202
\* no response written yet
NoResp == 0
\* heap cell of a request that has not allocated its Event
NoEvent == [EventID |-> EmptyID, Payload |-> 0, Status |-> ""]

VARIABLES
  events,     \* Store.events: event id -> pointer
  heap,       \* the Event each pointer refers to
  queue,      \* Worker.queue: buffered channel of pointers
  running,    \* Worker.running
  done,       \* Worker.done is closed
  lpc,        \* position of the goroutine spawned by Worker.Start
  levent,     \* event received by that goroutine
  spc,        \* position of the caller of Worker.Stop
  sevent,     \* event received by Stop's drain loop
  pc,         \* position of each POST /events handler
  req,        \* decoded EventRequest of each handler
  resp,       \* status code each handler wrote
  closed,     \* App.Shutdown has closed the HTTP server
  listed,     \* the slice a caller of Store.List holds (pointers)
  environ,    \* the process environment: variable name -> text
  config,     \* the Config LoadConfig returned
  atStop,     \* history: content of the channel when Stop was invoked
  startedAtStop, \* history: Start had been called when Stop was invoked
  lateEnq,    \* history: an Enqueue completed after Stop was invoked
  dequeued,   \* history: the events received and not yet marked, oldest first
  panicked    \* the process died of a panic (close of a closed channel)

vars == <<events, heap, queue, running, done, lpc, levent, spc, sevent,
          pc, req, resp, closed, listed, environ, config, atStop,
          startedAtStop, lateEnq, dequeued, panicked>>

workerVars == <<running, done, lpc, levent, spc, sevent>>
handlerVars == <<pc, req, resp>>
cfgVars == <<environ, config>>
histVars == <<atStop, startedAtStop, lateEnq, dequeued>>

\* ---- configuration ------------------------------------------------------
\* Texts are sequences of characters.
Digits == {"0", "5"}
Chars == Digits \cup {"-", "+", "x"}
DigitVal == ("0" :> 0) @@ ("5" :> 5)
EmptyText == <<>>

RECURSIVE TextsOfLen(_)
TextsOfLen(n) ==
  IF n = 0 THEN {EmptyText}
  ELSE {Append(t, c) : t \in TextsOfLen(n - 1), c \in Chars}
DelayTexts == UNION {TextsOfLen(n) : n \in 0..MaxLen}
PortTexts == {EmptyText, <<"9", "0", "9", "0">>}
EnvTexts == {EmptyText, <<"t", "e", "s", "t">>}

DefaultPort == <<"8", "0", "8", "0">>
DefaultEnv == <<"d", "e", "v">>
DefaultProcessingDelayMs == 1000

EnvNames == {"PORT", "ENV", "PROCESSING_DELAY_MS"}
TextsOf(name) ==
  IF name = "PORT" THEN PortTexts
  ELSE IF name = "ENV" THEN EnvTexts ELSE DelayTexts
\* the environments: some of the variables set, each to one of its texts
Environs ==
  UNION {{e \in [names -> DelayTexts \cup PortTexts \cup EnvTexts] :
            \A k \in names : e[k] \in TextsOf(k)} : names \in SUBSET EnvNames}

\* os.Getenv: the value, empty when the variable is not set
Getenv(e, key) == IF key \in DOMAIN e THEN e[key] ELSE EmptyText

RECURSIVE DecimalValue(_)
DecimalValue(ds) ==
  IF ds = <<>> THEN 0
  ELSE DecimalValue(SubSeq(ds, 1, Len(ds) - 1)) * 10 + DigitVal[ds[Len(ds)]]

\* strconv.Atoi: an optional sign, then one or more decimal digits
Atoi(t) ==
  LET signed == Len(t) > 0 /\ t[1] \in {"+", "-"}
      ds == IF signed THEN Tail(t) ELSE t
  IN IF ds = <<>> \/ \E i \in 1..Len(ds) : ds[i] \notin Digits
       THEN [value |-> 0, err |-> TRUE]
       ELSE [value |-> IF signed /\ t[1] = "-" THEN 0 - DecimalValue(ds)
                       ELSE DecimalValue(ds),
             err |-> FALSE]

getEnv(e, key, defaultValue) ==
  IF Getenv(e, key) = EmptyText THEN defaultValue ELSE Getenv(e, key)

\* mutant: a text that does not parse yields Atoi's zero value
getEnvAsInt_ZeroOnError(e, key, defaultValue) ==
  IF Getenv(e, key) = EmptyText THEN defaultValue
  ELSE Atoi(Getenv(e, key)).value

getEnvAsInt(e, key, defaultValue) ==
  IF Getenv(e, key) = EmptyText THEN defaultValue
  ELSE IF Atoi(Getenv(e, key)).err THEN defaultValue
  ELSE Atoi(Getenv(e, key)).value

LoadConfig(e) ==
  [Port |-> getEnv(e, "PORT", DefaultPort),
   Env |-> getEnv(e, "ENV", DefaultEnv),
   ProcessingDelayMs |->
     getEnvAsInt(e, "PROCESSING_DELAY_MS", DefaultProcessingDelayMs)]

\* Config{} before LoadConfig has been called
NoConfig == [Port |-> EmptyText, Env |-> EmptyText, ProcessingDelayMs |-> 0]

\* ---- Store --------------------------------------------------------------
\* mutant: Exists reports only the records that are still accepted
Exists_OnlyAccepted(eventID) ==
  /\ events[eventID] # Nil
  /\ heap[events[eventID]].Status = StatusAccepted

Exists(eventID) == events[eventID] # Nil

GetStatus(eventID) ==
  IF events[eventID] # Nil
    THEN <<heap[events[eventID]].Status, TRUE>>
    ELSE <<"", FALSE>>

\* mutant: Save inserts only when the key is absent
Save_KeepFirst(p) ==
  IF events[heap'[p].EventID] # Nil THEN events
  ELSE [events EXCEPT ![heap'[p].EventID] = p]

\* map after Save(event), event being the pointer p
Save(p) == [events EXCEPT ![heap'[p].EventID] = p]

\* mutant: MarkProcessed of an unknown key marks every record
MarkProcessed_UnknownMarksAll(eventID) ==
  IF events[eventID] # Nil
    THEN [heap EXCEPT ![events[eventID]].Status = StatusProcessed]
    ELSE [p \in Reqs |->
            IF heap[p] = NoEvent THEN heap[p]
            ELSE [heap[p] EXCEPT !.Status = StatusProcessed]]

\* mutant: MarkProcessed marks every record, whatever its key
MarkProcessed_AllRecords(eventID) ==
  [p \in Reqs |->
     IF heap[p] = NoEvent THEN heap[p]
     ELSE [heap[p] EXCEPT !.Status = StatusProcessed]]

\* heap after MarkProcessed(eventID)
MarkProcessed(eventID) ==
  IF events[eventID] # Nil
    THEN [heap EXCEPT ![events[eventID]].Status = StatusProcessed]
    ELSE heap

\* List(): the pointers held by the map
List == {events[k] : k \in {k2 \in IDs : events[k2] # Nil}}

\* ---- Worker -------------------------------------------------------------
IsRunning == running

\* store.New, worker.New: empty map, empty channel, nothing started
ServiceInit ==
  /\ events = [k \in IDs |-> Nil]
  /\ heap = [r \in Reqs |-> NoEvent]
  /\ queue = <<>>
  /\ running = FALSE
  /\ done = FALSE
  /\ lpc = "none"
  /\ levent = Nil
  /\ spc = "idle"
  /\ sevent = Nil
  /\ pc = [r \in Reqs |-> "idle"]
  /\ req = [r \in Reqs |-> [EventID |-> EmptyID, Payload |-> 0]]
  /\ resp = [r \in Reqs |-> NoResp]
  /\ closed = FALSE
  /\ listed = {}
  /\ atStop = <<>>
  /\ startedAtStop = FALSE
  /\ lateEnq = FALSE
  /\ dequeued = <<>>
  /\ panicked = FALSE

\* main: LoadConfig, app.New(config); here with no variable set
Init ==
  /\ ServiceInit
  /\ environ = [k \in {} |-> EmptyText]
  /\ config = LoadConfig(environ)

\* mutant: Start spawns the loop without setting w.running
Start_NoFlag ==
  /\ lpc = "none"
  /\ lpc' = "select"
  /\ UNCHANGED <<events, heap, queue, running, done, levent, spc, sevent,
                 handlerVars, histVars, closed, listed, cfgVars, panicked>>

\* Worker.Start: sets running and spawns the loop
Start ==
  /\ lpc = "none"
  /\ running' = TRUE
  /\ lpc' = "select"
  /\ UNCHANGED <<events, heap, queue, done, levent, spc, sevent,
                 handlerVars, histVars, closed, listed, cfgVars, panicked>>

\* mutant: the loop marks the event when it receives it, before the delay
LoopRecv_MarksEarly ==
  /\ lpc = "select"
  /\ Len(queue) > 0
  /\ levent' = Head(queue)
  /\ queue' = Tail(queue)
  /\ heap' = MarkProcessed(heap[Head(queue)].EventID)
  /\ dequeued' = Append(dequeued, Head(queue))
  /\ lpc' = "process"
  /\ UNCHANGED <<events, running, done, spc, sevent,
                 handlerVars, atStop, startedAtStop, lateEnq, closed, listed,
                 cfgVars, panicked>>

\* loop: case event := <-w.queue
LoopRecv ==
  /\ lpc = "select"
  /\ Len(queue) > 0
  /\ levent' = Head(queue)
  /\ queue' = Tail(queue)
  /\ lpc' = "process"
  /\ dequeued' = Append(dequeued, Head(queue))
  /\ UNCHANGED <<events, heap, running, done, spc, sevent,
                 handlerVars, atStop, startedAtStop, lateEnq, closed, listed,
                 cfgVars, panicked>>

\* loop: processEvent after its sleep
LoopProcess ==
  /\ lpc = "process"
  /\ heap' = MarkProcessed(heap[levent].EventID)
  /\ levent' = Nil
  /\ lpc' = "select"
  /\ dequeued' = SelectSeq(dequeued, LAMBDA p : p # levent)
  /\ UNCHANGED <<events, queue, running, done, spc, sevent,
                 handlerVars, atStop, startedAtStop, lateEnq, closed, listed,
                 cfgVars, panicked>>

\* mutant: the loop leaves as soon as the channel is empty, signal or not
LoopDone_OnEmpty ==
  /\ lpc = "select"
  /\ done \/ Len(queue) = 0
  /\ running' = FALSE
  /\ lpc' = "exited"
  /\ UNCHANGED <<events, heap, queue, done, levent, spc, sevent,
                 handlerVars, histVars, closed, listed, cfgVars, panicked>>

\* loop: case <-w.done
LoopDone ==
  /\ lpc = "select"
  /\ done
  /\ running' = FALSE
  /\ lpc' = "exited"
  /\ UNCHANGED <<events, heap, queue, done, levent, spc, sevent,
                 handlerVars, histVars, closed, listed, cfgVars, panicked>>

\* Stop: close(w.done)
StopClose ==
  /\ spc = "idle"
  /\ done' = TRUE
  /\ spc' = "len"
  /\ atStop' = queue
  /\ startedAtStop' = (lpc # "none")
  /\ UNCHANGED <<events, heap, queue, running, lpc, levent, sevent,
                 handlerVars, lateEnq, dequeued, closed, listed, cfgVars,
                 panicked>>

\* Stop: for len(w.queue) > 0
StopLen ==
  /\ spc = "len"
  /\ spc' = IF Len(queue) > 0 THEN "recv" ELSE "returned"
  /\ UNCHANGED <<events, heap, queue, running, done, lpc, levent, sevent,
                 handlerVars, histVars, closed, listed, cfgVars, panicked>>

\* Stop: event := <-w.queue
StopRecv ==
  /\ spc = "recv"
  /\ Len(queue) > 0
  /\ sevent' = Head(queue)
  /\ queue' = Tail(queue)
  /\ spc' = "process"
  /\ dequeued' = Append(dequeued, Head(queue))
  /\ UNCHANGED <<events, heap, running, done, lpc, levent,
                 handlerVars, atStop, startedAtStop, lateEnq, closed, listed,
                 cfgVars, panicked>>

\* Stop: processEvent after its sleep
StopProcess ==
  /\ spc = "process"
  /\ heap' = MarkProcessed(heap[sevent].EventID)
  /\ sevent' = Nil
  /\ spc' = "len"
  /\ dequeued' = SelectSeq(dequeued, LAMBDA p : p # sevent)
  /\ UNCHANGED <<events, queue, running, done, lpc, levent,
                 handlerVars, atStop, startedAtStop, lateEnq, closed, listed,
                 cfgVars, panicked>>

\* App.Shutdown after a.worker.Stop(): if a.server != nil { a.server.Close() }.
\* App.Start creates the server right after worker.Start; Close stops the
\* listener, the handlers already running go on.
ServerClose ==
  /\ spc = "returned"
  /\ spc' = "shutdown"
  /\ closed' = (lpc # "none")
  /\ UNCHANGED <<events, heap, queue, running, done, lpc, levent, sevent,
                 handlerVars, histVars, listed, cfgVars, panicked>>

\* ---- App.handleEvents, POST ---------------------------------------------
\* Requests are numbered in order of arrival.  Event ids and payloads are
\* opaque to the service (only compared for equality), so the clients' values
\* are numbered in order of first use: a request sends a value some earlier
\* request sent, or the next unused one.
UsedIDs == {req[q].EventID : q \in {q2 \in Reqs : pc[q2] # "idle"}} \ {EmptyID}
UsedPayloads == {req[q].Payload : q \in {q2 \in Reqs : pc[q2] # "idle"}}
InputIDs == {k \in Keys : k <= Cardinality(UsedIDs) + 1} \cup {EmptyID}
InputPayloads == {p \in Payloads : p <= Cardinality(UsedPayloads) + 1}

\* mutant: the handler does not reject an empty event_id
SubmitDecode_NoValidation(r) ==
  /\ pc[r] = "idle"
  /\ ~closed
  /\ \A q \in Reqs : q < r => pc[q] # "idle"
  /\ \E id \in InputIDs, p \in InputPayloads :
       /\ req' = [req EXCEPT ![r] = [EventID |-> id, Payload |-> p]]
       /\ resp' = resp
       /\ pc' = [pc EXCEPT ![r] = "exists"]
  /\ UNCHANGED <<events, heap, queue, workerVars, histVars, closed, listed,
                 cfgVars, panicked>>

\* decode the body and validate event_id
SubmitDecode(r) ==
  /\ pc[r] = "idle"
  /\ ~closed
  /\ \A q \in Reqs : q < r => pc[q] # "idle"
  /\ \E id \in InputIDs, p \in InputPayloads :
       /\ req' = [req EXCEPT ![r] = [EventID |-> id, Payload |-> p]]
       /\ IF id = EmptyID
            THEN /\ resp' = [resp EXCEPT ![r] = StatusBadRequest]
                 /\ pc' = [pc EXCEPT ![r] = "done"]
            ELSE /\ resp' = resp
                 /\ pc' = [pc EXCEPT ![r] = "exists"]
  /\ UNCHANGED <<events, heap, queue, workerVars, histVars, closed, listed,
                 cfgVars, panicked>>

\* mutant: the handler answers 409 and goes on to save and enqueue
SubmitExists_RejectsThenSaves(r) ==
  /\ pc[r] = "exists"
  /\ resp' = IF Exists(req[r].EventID)
               THEN [resp EXCEPT ![r] = StatusConflict] ELSE resp
  /\ pc' = [pc EXCEPT ![r] = "save"]
  /\ UNCHANGED <<events, heap, queue, workerVars, req, histVars, closed, listed,
                 cfgVars, panicked>>

\* mutant: the handler ignores the result of Exists
SubmitExists_Ignored(r) ==
  /\ pc[r] = "exists"
  /\ resp' = resp
  /\ pc' = [pc EXCEPT ![r] = "save"]
  /\ UNCHANGED <<events, heap, queue, workerVars, req, histVars, closed, listed,
                 cfgVars, panicked>>

\* if a.store.Exists(req.EventID)
SubmitExists(r) ==
  /\ pc[r] = "exists"
  /\ IF Exists(req[r].EventID)
       THEN /\ resp' = [resp EXCEPT ![r] = StatusConflict]
            /\ pc' = [pc EXCEPT ![r] = "done"]
       ELSE /\ resp' = resp
            /\ pc' = [pc EXCEPT ![r] = "save"]
  /\ UNCHANGED <<events, heap, queue, workerVars, req, histVars, closed, listed,
                 cfgVars, panicked>>

\* mutant: the handler builds the Event but does not Save it
SubmitSave_NoSave(r) ==
  /\ pc[r] = "save"
  /\ heap' = [heap EXCEPT ![r] = [EventID |-> req[r].EventID,
                                  Payload |-> req[r].Payload,
                                  Status |-> StatusAccepted]]
  /\ pc' = [pc EXCEPT ![r] = "enqueue"]
  /\ UNCHANGED <<events, queue, workerVars, req, resp, histVars, closed, listed,
                 cfgVars, panicked>>

\* event := &model.Event{...}; a.store.Save(event)
SubmitSave(r) ==
  /\ pc[r] = "save"
  /\ heap' = [heap EXCEPT ![r] = [EventID |-> req[r].EventID,
                                  Payload |-> req[r].Payload,
                                  Status |-> StatusAccepted]]
  /\ events' = Save(r)
  /\ pc' = [pc EXCEPT ![r] = "enqueue"]
  /\ UNCHANGED <<queue, workerVars, req, resp, histVars, closed, listed,
                 cfgVars, panicked>>

\* mutant: Enqueue gives up when the channel is full (select with default)
SubmitEnqueue_DropWhenFull(r) ==
  /\ pc[r] = "enqueue"
  /\ queue' = IF Len(queue) < QueueCap THEN Append(queue, r) ELSE queue
  /\ lateEnq' = (lateEnq \/ done)
  /\ pc' = [pc EXCEPT ![r] = "respond"]
  /\ UNCHANGED <<events, heap, workerVars, req, resp, atStop, startedAtStop,
                 dequeued, closed, listed, cfgVars, panicked>>

\* mutant: Enqueue does not wait for a free slot
SubmitEnqueue_NoBlock(r) ==
  /\ pc[r] = "enqueue"
  /\ queue' = Append(queue, r)
  /\ lateEnq' = (lateEnq \/ done)
  /\ pc' = [pc EXCEPT ![r] = "respond"]
  /\ UNCHANGED <<events, heap, workerVars, req, resp, atStop, startedAtStop,
                 dequeued, closed, listed, cfgVars, panicked>>

\* a.worker.Enqueue(event): blocks while the channel is full
SubmitEnqueue(r) ==
  /\ pc[r] = "enqueue"
  /\ Len(queue) < QueueCap
  /\ queue' = Append(queue, r)
  /\ lateEnq' = (lateEnq \/ done)
  /\ pc' = [pc EXCEPT ![r] = "respond"]
  /\ UNCHANGED <<events, heap, workerVars, req, resp, atStop, startedAtStop,
                 dequeued, closed, listed, cfgVars, panicked>>

\* w.WriteHeader(http.StatusAccepted)
SubmitAccepted(r) ==
  /\ pc[r] = "respond"
  /\ resp' = [resp EXCEPT ![r] = StatusAccepted202]
  /\ pc' = [pc EXCEPT ![r] = "done"]
  /\ UNCHANGED <<events, heap, queue, workerVars, req, histVars, closed, listed,
                 cfgVars, panicked>>

\* ---- App.handleReady ----------------------------------------------------
\* w.running is written by the loop goroutine and read by the handlers
\* without synchronisation: once the loop has stored false, a read may
\* still observe the value Start stored.  Start's store is ordered before
\* every handler (the server is created after worker.Start returns).
RunningReads == {running} \cup (IF lpc = "exited" THEN {TRUE} ELSE {})

ReadyResponse(isRunning) ==
  IF ~isRunning
    THEN [code |-> 503, status |-> "not ready", ready |-> FALSE]
    ELSE [code |-> 200, status |-> "ready", ready |-> TRUE]

\* the responses GET /ready can give in the current state
ReadyResponses == {ReadyResponse(v) : v \in RunningReads}

\* the handler reads w.running and writes its response; it stores nothing
handleReady ==
  /\ \E v \in RunningReads : ReadyResponse(v) \in ReadyResponses
  /\ UNCHANGED vars

\* ---- App.handleHealth ---------------------------------------------------
Methods == {"GET", "POST"}

\* mutant: health answers like readiness, from the worker's flag
HealthResponse_FromWorker(method) ==
  IF method # "GET"
    THEN [code |-> 405, status |-> ""]
    ELSE IF running THEN [code |-> 200, status |-> "ok"]
                    ELSE [code |-> 503, status |-> "not ok"]

\* the response without its uptime field (time.Since(a.startTime))
HealthResponse(method) ==
  IF method # "GET"
    THEN [code |-> 405, status |-> ""]
    ELSE [code |-> 200, status |-> "ok"]

\* the handler writes its response; it stores nothing
handleHealth ==
  /\ \E m \in Methods : HealthResponse(m).code \in {200, 405}
  /\ UNCHANGED vars

Next ==
  \/ Start
  \/ LoopRecv
  \/ LoopProcess
  \/ LoopDone
  \/ StopClose
  \/ StopLen
  \/ StopRecv
  \/ StopProcess
  \/ ServerClose
  \/ \E r \in Reqs : SubmitDecode(r)
  \/ \E r \in Reqs : SubmitExists(r)
  \/ \E r \in Reqs : SubmitSave(r)
  \/ \E r \in Reqs : SubmitEnqueue(r)
  \/ \E r \in Reqs : SubmitAccepted(r)
  \/ handleReady
  \/ handleHealth

Spec == Init /\ [][Next]_vars

\* the scheduler runs the loop goroutine, the caller of Stop and every
\* handler that has started again and again; a select with both cases ready
\* takes one of them
FairSpec ==
  /\ Spec
  /\ WF_vars(LoopRecv \/ LoopDone)
  /\ WF_vars(LoopProcess)
  /\ WF_vars(StopLen)
  /\ WF_vars(StopRecv)
  /\ WF_vars(StopProcess)
  /\ WF_vars(ServerClose)
  /\ \A r \in Reqs :
       WF_vars(SubmitExists(r) \/ SubmitSave(r) \/ SubmitEnqueue(r)
                 \/ SubmitAccepted(r))

\* ---- the Store driven by a client of its API ---------------------------
\* the caller allocates an Event (the next free cell) and passes its pointer
StoreSave(p, eventID, payload) ==
  /\ heap[p] = NoEvent
  /\ \A q \in Reqs : q < p => heap[q] # NoEvent
  /\ heap' = [heap EXCEPT ![p] = [EventID |-> eventID, Payload |-> payload,
                                  Status |-> StatusAccepted]]
  /\ events' = Save(p)
  /\ UNCHANGED <<queue, workerVars, handlerVars, histVars, closed, listed,
                 cfgVars, panicked>>

StoreMarkProcessed(eventID) ==
  /\ heap' = MarkProcessed(eventID)
  /\ UNCHANGED <<events, queue, workerVars, handlerVars, histVars, closed,
                 listed, cfgVars, panicked>>

\* the caller keeps the slice List returned
StoreList ==
  /\ listed' = List
  /\ UNCHANGED <<events, heap, queue, workerVars, handlerVars, histVars,
                 closed, cfgVars, panicked>>

StoreNext ==
  \/ \E p \in Reqs, k \in Keys, v \in Payloads : StoreSave(p, k, v)
  \/ \E k \in IDs : StoreMarkProcessed(k)
  \/ StoreList

StoreSpec == Init /\ [][StoreNext]_vars

\* ---- LoadConfig called in an environment --------------------------------
serviceVarsButPanic == <<events, heap, queue, workerVars, handlerVars,
                        histVars, closed, listed>>
serviceVars == <<serviceVarsButPanic, panicked>>

ConfigInit ==
  /\ ServiceInit
  /\ environ \in Environs
  /\ config = NoConfig

\* os.Setenv(key, text)
Setenv(key, text) ==
  /\ environ' = [k \in DOMAIN environ \cup {key} |->
                   IF k = key THEN text ELSE environ[k]]
  /\ UNCHANGED <<serviceVars, config>>

\* os.Unsetenv(key)
Unsetenv(key) ==
  /\ key \in DOMAIN environ
  /\ environ' = [k \in DOMAIN environ \ {key} |-> environ[k]]
  /\ UNCHANGED <<serviceVars, config>>

\* config := LoadConfig()
LoadConfigCall ==
  /\ config' = LoadConfig(environ)
  /\ UNCHANGED <<serviceVars, environ>>

ConfigNext ==
  \/ \E key \in EnvNames : \E text \in TextsOf(key) : Setenv(key, text)
  \/ \E key \in EnvNames : Unsetenv(key)
  \/ LoadConfigCall

ConfigSpec == ConfigInit /\ [][ConfigNext]_vars

\* ---- Worker.Stop called again --------------------------------------------
\* mutant: a later Stop skips the close and runs the drain loop again
StopAgain_Redrain ==
  /\ done
  /\ spc \in {"returned", "shutdown"}
  /\ spc' = "len"
  /\ UNCHANGED <<events, heap, queue, running, done, lpc, levent, sevent,
                 handlerVars, histVars, closed, listed, cfgVars, panicked>>

\* a Stop after the first one: close(w.done) of the closed channel panics,
\* before the drain loop; nothing recovers the panic, the process dies
StopAgain ==
  /\ done
  /\ panicked' = TRUE
  /\ UNCHANGED <<events, heap, queue, workerVars, handlerVars, histVars,
                 closed, listed, cfgVars>>

\* the service while the process is alive, and Stop called more than once
StopTwiceNext ==
  \/ ~panicked /\ Start
  \/ ~panicked /\ LoopRecv
  \/ ~panicked /\ LoopProcess
  \/ ~panicked /\ LoopDone
  \/ ~panicked /\ StopClose
  \/ ~panicked /\ StopLen
  \/ ~panicked /\ StopRecv
  \/ ~panicked /\ StopProcess
  \/ ~panicked /\ ServerClose
  \/ ~panicked /\ \E r \in Reqs : SubmitDecode(r)
  \/ ~panicked /\ \E r \in Reqs : SubmitExists(r)
  \/ ~panicked /\ \E r \in Reqs : SubmitSave(r)
  \/ ~panicked /\ \E r \in Reqs : SubmitEnqueue(r)
  \/ ~panicked /\ \E r \in Reqs : SubmitAccepted(r)
  \/ ~panicked /\ StopAgain

StopTwiceSpec == Init /\ [][StopTwiceNext]_vars

\* ---- properties ---------------------------------------------------------
\* Stop has returned to its caller
StopReturned == spc \in {"returned", "shutdown"}
\* the requests that carried event id k
RequestsFor(k) == {r \in Reqs : pc[r] # "idle" /\ req[r].EventID = k}
AcceptedFor(k) == {r \in RequestsFor(k) : resp[r] = StatusAccepted202}
\* no two requests have saved an Event under the same id
NoDuplicateSave ==
  \A r1, r2 \in Reqs :
    (r1 # r2 /\ heap[r1] # NoEvent /\ heap[r2] # NoEvent)
      => heap[r1].EventID # heap[r2].EventID
\* every event that was in the channel when Stop was invoked is processed
DrainedAtStop ==
  \A i \in 1..Len(atStop) :
    GetStatus(heap[atStop[i]].EventID) = <<StatusProcessed, TRUE>>

\* C1: when all the POST /events requests that carry one non-empty event id
\* (two or more of them) have returned, exactly one of them returned 202 and
\* every other one returned 409.
C1_ExactlyOneAccepted ==
  \A k \in Keys :
    (/\ Cardinality(RequestsFor(k)) >= 2
     /\ \A r \in RequestsFor(k) : pc[r] = "done")
      => /\ Cardinality(AcceptedFor(k)) = 1
         /\ \A r \in RequestsFor(k) \ AcceptedFor(k) : resp[r] = StatusConflict

\* C2: when Stop returns on a worker that was started before Stop was
\* invoked, with no Enqueue after the invocation (and no id saved twice),
\* every event that was queued at the invocation has status processed.
C2_DrainOnStop ==
  (spc = "returned" /\ startedAtStop /\ ~lateEnq /\ NoDuplicateSave)
    => DrainedAtStop

\* C3: under fair scheduling of the worker loop and of Stop, once a request
\* for id k has returned 202 while the worker is started and Stop has not
\* been invoked, the status of k in the Store eventually is processed.
C3_EventualProcessing ==
  \A k \in Keys :
    (AcceptedFor(k) # {} /\ lpc # "none" /\ ~done)
      ~> (GetStatus(k) = <<StatusProcessed, TRUE>>)

\* C4: once GetStatus(k) reports processed, it reports processed in every
\* later state (never accepted, never not-found).
C4_StatusMonotonic ==
  [][\A k \in Keys :
       GetStatus(k) = <<StatusProcessed, TRUE>>
         => GetStatus(k)' = <<StatusProcessed, TRUE>>]_vars

\* a step in which the worker loop or Stop's drain marks id k
MarksStep(k) ==
  \/ lpc = "process" /\ lpc' = "select" /\ heap[levent].EventID = k
  \/ spc = "process" /\ spc' = "len" /\ heap[sevent].EventID = k

\* C5: in every state where a request for id k has returned 202,
\* GetStatus(k) reports found with status accepted or processed, and the
\* status of k goes from accepted to processed only in a step in which the
\* worker (its loop or Stop's drain) marks k.
C5_IdempotentVisibility ==
  /\ [](\A k \in Keys :
          AcceptedFor(k) # {}
            => /\ GetStatus(k)[2]
               /\ GetStatus(k)[1] \in {StatusAccepted, StatusProcessed})
  /\ [][\A k \in Keys :
          (/\ GetStatus(k) = <<StatusAccepted, TRUE>>
           /\ GetStatus(k)' # <<StatusAccepted, TRUE>>)
            => /\ GetStatus(k)' = <<StatusProcessed, TRUE>>
               /\ MarksStep(k)]_vars

C5_Witness ==
  \E k \in Keys :
    /\ AcceptedFor(k) # {}
    /\ GetStatus(k) = <<StatusAccepted, TRUE>>
    /\ lpc = "process"
    /\ heap[levent].EventID = k

\* the pointer p is held nowhere: not by the Store, the channel or a worker
Unreferenced(p) ==
  /\ \A k \in IDs : events[k] # p
  /\ \A i \in 1..Len(queue) : queue[i] # p
  /\ levent # p
  /\ sevent # p

\* C6: a request with an empty event_id gets 400 in the step that decodes
\* it, that step leaves the Store and the channel unchanged, and neither then
\* nor later is an Event of that request stored or queued.
C6_EmptyIDRejected ==
  /\ [][\A r \in Reqs :
          (pc[r] = "idle" /\ pc'[r] # "idle" /\ req'[r].EventID = EmptyID)
            => /\ resp'[r] = StatusBadRequest
               /\ pc'[r] = "done"
               /\ events' = events
               /\ heap' = heap
               /\ queue' = queue]_vars
  /\ [](\A r \in Reqs :
          (pc[r] # "idle" /\ req[r].EventID = EmptyID)
            => /\ resp[r] = StatusBadRequest
               /\ heap[r] = NoEvent
               /\ Unreferenced(r)
               /\ ~Exists(EmptyID))

C6_Witness ==
  \E r \in Reqs :
    /\ resp[r] = StatusBadRequest
    /\ req[r].EventID = EmptyID
    /\ \E k \in Keys : Exists(k)

\* the records List returns whose key is k
RecordsFor(k) == {p \in List : heap[p].EventID = k}

\* C7: a request whose id is in the Store when it checks Exists gets 409 in
\* that step, the step leaves the Store (map and records) and the channel
\* unchanged, the Store then holds exactly one record for the id, and the
\* request never stores or queues an Event.
C7_ConflictLeavesStore ==
  /\ [][\A r \in Reqs :
          (pc[r] = "exists" /\ pc'[r] # "exists" /\ Exists(req[r].EventID))
            => /\ resp'[r] = StatusConflict
               /\ pc'[r] = "done"
               /\ events' = events
               /\ heap' = heap
               /\ queue' = queue
               /\ Cardinality(RecordsFor(req[r].EventID)') = 1]_vars
  /\ [](\A r \in Reqs :
          resp[r] = StatusConflict
            => /\ heap[r] = NoEvent
               /\ Unreferenced(r)
               /\ Cardinality(RecordsFor(req[r].EventID)) = 1)

C7_Witness ==
  \E r \in Reqs :
    /\ resp[r] = StatusConflict
    /\ GetStatus(req[r].EventID) = <<StatusProcessed, TRUE>>

\* C8: after Stop has returned (on a worker started before Stop was
\* invoked), every IsRunning() reports false and GET /ready answers
\* not ready.
C8_NotRunningAfterStop ==
  (StopReturned /\ startedAtStop)
    => /\ ~IsRunning
       /\ RunningReads = {FALSE}
       /\ ReadyResponses = {ReadyResponse(FALSE)}

\* C9: IsRunning() is false as long as Start has not been called, true from
\* the return of Start as long as Stop has not been invoked, whatever the
\* spawned loop has done so far, and GET /ready answers ready=true exactly
\* for the reads of IsRunning() that return true.
C9_RunningSetByStart ==
  /\ lpc = "none" => (~IsRunning /\ RunningReads = {FALSE})
  /\ (lpc # "none" /\ ~done) => (IsRunning /\ RunningReads = {TRUE})
  /\ \A v \in RunningReads :
       /\ ReadyResponse(v).ready = v
       /\ (ReadyResponse(v).code = 200) = v
       /\ ReadyResponse(v) \in ReadyResponses

C9_Witness ==
  /\ lpc = "process"
  /\ ~done
  /\ IsRunning
  /\ ReadyResponses = {ReadyResponse(TRUE)}

\* C10 as claimed: on a worker started before Stop was invoked (no id saved
\* twice), IsRunning() is false only when every event that was queued when
\* Stop was invoked is processed.
C10_RunningUntilDrained ==
  (lpc # "none" /\ startedAtStop /\ NoDuplicateSave /\ ~IsRunning)
    => DrainedAtStop

\* C10 as amended: once the worker has been started, IsRunning() does not
\* become false before Stop has been invoked.
C10_RunningUntilStopInvoked ==
  (lpc # "none" /\ ~IsRunning) => (done /\ spc # "idle")

C10_Witness ==
  /\ startedAtStop
  /\ ~IsRunning
  /\ ~DrainedAtStop
  /\ NoDuplicateSave

\* the work items in the channel or held by a worker
QueuedItems == {queue[i] : i \in 1..Len(queue)}
InFlightItems == {levent, sevent} \ {Nil}
\* the requests whose Enqueue has completed
Enqueued == {r \in Reqs : pc[r] = "respond" \/ resp[r] = StatusAccepted202}

\* C11: no queued event is dropped; in particular, once both consumers are
\* gone (the loop has exited and Stop has returned) no work item is left in
\* the channel (no id saved twice).
C11_NoQueuedEventDropped ==
  (lpc = "exited" /\ StopReturned /\ NoDuplicateSave) => queue = <<>>

\* C13: in the step in which Stop returns (no Enqueue since its
\* invocation), no dequeued event is still waiting for its MarkProcessed,
\* neither in the loop nor in Stop's drain.
C13_NoWorkInFlight ==
  [][(~StopReturned /\ StopReturned' /\ ~lateEnq') => InFlightItems' = {}]_vars

\* C12: once Worker.Stop has begun (on a started worker), no POST /events
\* handler saves a record or enqueues a work item.
C12_NoSubmitAfterStopBegins ==
  [][(done /\ startedAtStop)
       => /\ events' = events
          /\ \A r \in Reqs : heap'[r] = NoEvent <=> heap[r] = NoEvent
          /\ \A r \in Reqs : r \in Enqueued' => r \in Enqueued]_vars

\* C14: under fair scheduling, once Stop has been invoked it returns, unless
\* an Enqueue completes after the invocation.
C14_StopTerminates == done ~> (StopReturned \/ lateEnq)

\* C15: every work item in the channel or held by a worker refers to a key
\* for which Exists is true and GetStatus reports found.
C15_SaveBeforeEnqueue ==
  \A p \in QueuedItems \cup InFlightItems :
    /\ heap[p] # NoEvent
    /\ Exists(heap[p].EventID)
    /\ GetStatus(heap[p].EventID)[2]

C15_Witness ==
  /\ QueuedItems # {}
  /\ levent # Nil
  /\ heap[levent].EventID \in Keys

\* C16: at most one work item per event id is ever enqueued.
C16_AcceptedOnce ==
  \A r1, r2 \in Enqueued :
    r1 # r2 => req[r1].EventID # req[r2].EventID

\* C17: the channel never holds more than its capacity; a handler whose
\* Enqueue finds the channel full stays in Enqueue with its Event and no
\* response, can proceed exactly when a slot is free, and leaves Enqueue
\* only by appending its work item.
C17_Backpressure ==
  /\ [](/\ Len(queue) <= QueueCap
        /\ \A r \in Reqs :
             pc[r] = "enqueue"
               => /\ resp[r] = NoResp
                  /\ heap[r] # NoEvent
                  /\ (ENABLED SubmitEnqueue(r)) = (Len(queue) < QueueCap))
  /\ [][\A r \in Reqs :
          (pc[r] = "enqueue" /\ pc'[r] # "enqueue")
            => /\ Len(queue) < QueueCap
               /\ queue' = Append(queue, r)
               /\ pc'[r] = "respond"]_vars

C17_Witness ==
  /\ Len(queue) = QueueCap
  /\ \E r \in Reqs : pc[r] = "enqueue" /\ ~ENABLED SubmitEnqueue(r)

\* C18: a key that is in the Store stays in the Store, and the payload
\* stored under it does not change.
C18_KeyAndPayloadStable ==
  [][\A k \in Keys :
       Exists(k)
         => /\ Exists(k)'
            /\ heap'[events'[k]].Payload = heap[events[k]].Payload]_vars

\* C19: MarkProcessed(key) on a key that is not in the store is a silent
\* no-op: the call changes neither the map (it creates no record) nor any
\* existing record, and it is always possible (it has no error outcome).
C19_MarkUnknownIsNoOp ==
  /\ [](\A k \in IDs :
          ~Exists(k) => /\ MarkProcessed(k) = heap
                        /\ ENABLED StoreMarkProcessed(k))
  /\ [][\A k \in IDs :
          (~Exists(k) /\ StoreMarkProcessed(k))
            => /\ events' = events
               /\ heap' = heap]_vars

\* a key that was never saved, beside a record that is still accepted
C19_Witness ==
  /\ \E k \in Keys : ~Exists(k) /\ \A p \in Reqs : heap[p].EventID # k
  /\ \E p \in List : heap[p].Status = StatusAccepted

\* the records reachable through the slice List returned
ListedRecords == {heap[p] : p \in listed}

\* C20: the sequence List returned (its keys, payloads and statuses) is not
\* changed by a later Save or MarkProcessed.
C20_ListIsSnapshot ==
  [][listed' = listed => ListedRecords' = ListedRecords]_vars

\* the keys of the Events that have been passed to Save
SavedKeys == {heap[p].EventID : p \in {q \in Reqs : heap[q] # NoEvent}}

\* C21: Exists(key) is true and GetStatus(key) reports found exactly for the
\* keys that have been passed to Save; once a key is in the store every later
\* Exists/GetStatus observes it, and any other key is reported not found.
C21_ExistsIffSaved ==
  /\ [](\A k \in IDs : /\ Exists(k) = (k \in SavedKeys)
                        /\ GetStatus(k)[2] = (k \in SavedKeys)
                        /\ k \notin SavedKeys => GetStatus(k) = <<"", FALSE>>)
  /\ [][\A k \in IDs : (k \in SavedKeys' \/ Exists(k))
                          => (Exists(k)' /\ GetStatus(k)'[2])]_vars

\* one key saved and already processed, another key never saved
C21_Witness ==
  /\ \E k \in Keys : Exists(k) /\ GetStatus(k) = <<StatusProcessed, TRUE>>
  /\ \E k \in Keys : k \notin SavedKeys /\ ~Exists(k)

\* the event whose MarkProcessed runs in this step
Marked(p) ==
  /\ p \in InFlightItems
  /\ p \notin InFlightItems'

\* C22: events are processed in FIFO order: MarkProcessed runs for an event
\* only when every event that was enqueued (hence received) before it has
\* been marked, also while Stop is draining (here with distinct event ids
\* and no Enqueue after Stop's invocation).
C22_FifoProcessing ==
  [][\A p \in Reqs :
       (Marked(p) /\ NoDuplicateSave /\ ~lateEnq) => p = Head(dequeued)]_vars

\* C30: at most one event is being processed (received, not yet marked) at
\* any moment: the loop and Stop's drain never hold an event both (here
\* with distinct event ids and no Enqueue after Stop's invocation).
C30_OneInFlight ==
  (NoDuplicateSave /\ ~lateEnq) => ~(levent # Nil /\ sevent # Nil)

\* C23: GET /health answers status "ok" in every state (before Start, while
\* running, during and after Stop) and a health request changes neither the
\* Store nor the channel nor the running flag.
C23_HealthAlwaysOk ==
  /\ [](HealthResponse("GET") = [code |-> 200, status |-> "ok"])
  /\ [][handleHealth => UNCHANGED <<events, heap, queue, running>>]_vars

\* Stop is draining: the signal is observed, an event is still in the channel
C23_Witness ==
  /\ done /\ ~running /\ ~StopReturned /\ queue # <<>>
  /\ HealthResponse("GET").status = "ok"

\* the value the environment gives a variable, if it is set and not empty
IsSet(key) == key \in DOMAIN environ /\ environ[key] # EmptyText

\* C24: LoadConfig returns the values of PORT, ENV and PROCESSING_DELAY_MS
\* (parsed as an integer) when they are set, the defaults 8080, dev and 1000
\* for a variable that is unset or empty, and 1000 for a
\* PROCESSING_DELAY_MS that is not an integer.
C24_LoadConfig ==
  [][config' # config =>
       /\ config'.Port = IF IsSet("PORT") THEN environ["PORT"]
                         ELSE <<"8", "0", "8", "0">>
       /\ config'.Env = IF IsSet("ENV") THEN environ["ENV"]
                        ELSE <<"d", "e", "v">>
       /\ config'.ProcessingDelayMs =
            IF IsSet("PROCESSING_DELAY_MS")
                 /\ ~Atoi(environ["PROCESSING_DELAY_MS"]).err
              THEN Atoi(environ["PROCESSING_DELAY_MS"]).value
              ELSE 1000]_vars

\* loaded with PORT unset, ENV empty and PROCESSING_DELAY_MS = "50"
C24_Witness ==
  /\ config = [Port |-> DefaultPort, Env |-> DefaultEnv,
               ProcessingDelayMs |-> 50]
  /\ "PORT" \notin DOMAIN environ
  /\ "ENV" \in DOMAIN environ /\ environ["ENV"] = EmptyText
  /\ IsSet("PROCESSING_DELAY_MS")
  /\ environ["PROCESSING_DELAY_MS"] = <<"5", "0">>

\* Stop, invoked on a started worker, is draining the channel or has returned
DrainingOrStopped ==
  /\ startedAtStop
  /\ spc \in {"recv", "process", "returned", "shutdown"}

\* C25: IsRunning() is true only in the running state: it is false while
\* Stop drains the channel after its signal and after Stop has completed.
C25_RunningOnlyWhileRunning == DrainingOrStopped => ~IsRunning

\* C26: the worker changes only the status field of the record stored under
\* the key of the event it processes: a step of the worker (no handler
\* moves) adds or removes no Store entry, changes no key or payload, and
\* changes a status only to processed and only for that key.
C26_WorkerFrame ==
  [][pc' = pc =>
       /\ events' = events
       /\ \A q \in Reqs :
            heap'[q] # heap[q]
              => /\ heap'[q] = [heap[q] EXCEPT !.Status = StatusProcessed]
                 /\ \E p \in Reqs : /\ Marked(p)
                                     /\ heap[p].EventID = heap[q].EventID
                                     /\ events[heap[p].EventID] = q]_vars

\* one key processed while the record of another key is still accepted
C26_Witness ==
  \E k1, k2 \in Keys :
    /\ GetStatus(k1) = <<StatusProcessed, TRUE>>
    /\ GetStatus(k2) = <<StatusAccepted, TRUE>>
    /\ heap[events[k1]].Payload \in Payloads
    /\ InFlightItems = {}

\* the work items whose processEvent has completed
Finished == Enqueued \ (QueuedItems \cup InFlightItems)

\* C27: every record's status is accepted or processed, a record is created
\* with status accepted, and a record is processed only if a work item of
\* its key has been received and its processEvent (delay included) is over.
C27_StatusDomain ==
  /\ [](\A p \in Reqs :
          heap[p] # NoEvent
            => /\ heap[p].Status \in {StatusAccepted, StatusProcessed}
               /\ heap[p].Status = StatusProcessed
                    => \E r \in Finished : heap[r].EventID = heap[p].EventID)
  /\ [][\A p \in Reqs :
          (heap[p] = NoEvent /\ heap'[p] # NoEvent)
            => heap'[p].Status = StatusAccepted]_vars

\* a processed record beside an accepted one whose event is being processed
C27_Witness ==
  /\ \E p \in Reqs : heap[p].Status = StatusProcessed
  /\ \E q \in InFlightItems : heap[q].Status = StatusAccepted

\* C28: Save is an unconditional insert/overwrite: whatever the map held
\* under the key, after Save(record) the key refers to the new record
\* (its payload and status); no other key and no other record changes; Save
\* has no error outcome.
C28_SaveOverwrites ==
  [][\A p \in Reqs :
       (heap[p] = NoEvent /\ heap'[p] # NoEvent)
         => /\ events'[heap'[p].EventID] = p
            /\ \A k \in IDs \ {heap'[p].EventID} : events'[k] = events[k]
            /\ \A q \in Reqs \ {p} : heap'[q] = heap[q]]_vars

\* a key saved twice: the map refers to the second record, still accepted,
\* whereas the first one had another payload and was processed
C28_Witness ==
  \E p, q \in Reqs :
    /\ p < q
    /\ heap[p] # NoEvent /\ heap[q] # NoEvent
    /\ heap[p].EventID = heap[q].EventID
    /\ heap[p].Payload # heap[q].Payload
    /\ heap[p].Status = StatusProcessed
    /\ events[heap[q].EventID] = q
    /\ GetStatus(heap[q].EventID) = <<StatusAccepted, TRUE>>

\* request r is inside Enqueue and the channel is full
Blocked(r) == pc[r] = "enqueue" /\ Len(queue) = QueueCap

\* r is the only request that saved an Event under its id
SoleSaver(r) ==
  \A q \in Reqs \ {r} :
    heap[q] = NoEvent \/ heap[q].EventID # heap[r].EventID

\* C29: a Submit that finds the channel full stays blocked, without its
\* Accepted response, as long as no consumer takes an item; its record is
\* already in the Store with status accepted, so a Submit of the same id that
\* checks Exists afterwards gets Conflict.
C29_BlockedSubmit ==
  /\ [](\A r \in Reqs :
          Blocked(r)
            => /\ resp[r] = NoResp
               /\ ~ENABLED SubmitEnqueue(r)
               /\ Exists(req[r].EventID)
               /\ SoleSaver(r)
                    => GetStatus(req[r].EventID) = <<StatusAccepted, TRUE>>)
  /\ [][\A r \in Reqs :
          (Blocked(r) /\ queue' = queue)
            => /\ pc'[r] = "enqueue"
               /\ resp'[r] = NoResp]_vars
  /\ [][\A q \in Reqs :
          (/\ pc[q] = "exists"
           /\ pc'[q] # "exists"
           /\ \E r \in Reqs \ {q} : /\ pc[r] = "enqueue"
                                     /\ req[r].EventID = req[q].EventID)
            => /\ resp'[q] = StatusConflict
               /\ pc'[q] = "done"]_vars

\* the worker was never started, the channel is full and a request whose
\* record is stored as accepted waits in Enqueue
C29_Witness ==
  /\ lpc = "none"
  /\ spc = "idle"
  /\ \E r \in Reqs : /\ Blocked(r)
                      /\ SoleSaver(r)
                      /\ GetStatus(req[r].EventID) = <<StatusAccepted, TRUE>>

\* C31: after Stop is invoked on a started worker the loop eventually
\* observes the signal and exits (fair scheduling); from then on every
\* IsRunning() reports false and the loop receives no further event.
C31_LoopExitsForGood ==
  /\ (done /\ startedAtStop) ~> (lpc = "exited")
  /\ [](lpc = "exited" => /\ ~IsRunning
                          /\ RunningReads = {FALSE}
                          /\ levent = Nil)
  /\ [][lpc = "exited" => (lpc' = "exited" /\ levent' = Nil)]_vars

\* C32: Submit answers Accepted only after its Save and its Enqueue: in
\* every state where a request for an id has returned 202, an event of that
\* id is in the channel or being processed, or the id is already processed.
C32_AcceptedAfterEnqueue ==
  \A r \in Reqs :
    resp[r] = StatusAccepted202
      => \/ \E p \in QueuedItems \cup InFlightItems :
              heap[p].EventID = req[r].EventID
         \/ GetStatus(req[r].EventID) = <<StatusProcessed, TRUE>>

\* C33: Stop can be called once: a Stop on the already closed channel
\* panics instead of completing (it never enters the drain loop, it changes
\* nothing, the process does nothing afterwards); Stop on a worker that was
\* never started drains the channel in its caller and leaves IsRunning()
\* false.
C33_StopOnce ==
  /\ [](/\ panicked => done
        /\ (done /\ ~panicked) => ENABLED StopAgain
        /\ (StopReturned /\ lpc = "none")
             => /\ ~IsRunning
                /\ RunningReads = {FALSE}
                /\ sevent = Nil
                /\ (~lateEnq /\ NoDuplicateSave) => DrainedAtStop)
  /\ [][/\ ~panicked
        /\ done => /\ done'
                   /\ spc' = "len" => spc \in {"len", "process"}
                   /\ panicked' => UNCHANGED serviceVarsButPanic
        /\ (lpc' = "none" /\ Len(queue') < Len(queue))
             => /\ spc = "recv"
                /\ sevent' = Head(queue)]_vars

\* a second Stop has panicked after the first one, on a worker that was
\* never started, had drained an event in its caller
C33_Witness ==
  /\ panicked
  /\ lpc = "none"
  /\ StopReturned
  /\ atStop # <<>>
  /\ DrainedAtStop
  /\ ~IsRunning

\* the request ended with InvalidInput or Conflict
Rejected(r) == resp[r] \in {StatusBadRequest, StatusConflict}

\* the request carries a non-empty id that no other request carries
FreshID(q) ==
  /\ pc[q] # "idle"
  /\ req[q].EventID # EmptyID
  /\ RequestsFor(req[q].EventID) = {q}

\* C34: InvalidInput and Conflict are local and terminal: a rejected request
\* has returned, keeps its response, and no Event of it is ever stored or
\* queued; a request with a fresh non-empty id is never rejected and returns
\* Accepted when it returns, whatever requests were rejected before it.
C34_RejectionsLocalTerminal ==
  /\ [](\A r \in Reqs :
          Rejected(r) => /\ pc[r] = "done"
                         /\ heap[r] = NoEvent
                         /\ Unreferenced(r))
  /\ [][\A r \in Reqs :
          Rejected(r) => /\ resp'[r] = resp[r]
                         /\ pc'[r] = pc[r]
                         /\ req'[r] = req[r]]_vars
  /\ [](\A q \in Reqs :
          FreshID(q) => /\ ~Rejected(q)
                        /\ pc[q] = "done" => resp[q] = StatusAccepted202)

\* a request was rejected and a later request with a fresh id was accepted
C34_Witness ==
  \E r, q \in Reqs :
    /\ r < q
    /\ Rejected(r)
    /\ FreshID(q)
    /\ resp[q] = StatusAccepted202

TypeOK ==
  /\ events \in [IDs -> Reqs \cup {Nil}]
  /\ queue \in Seq(Reqs)
  /\ Len(queue) <= QueueCap
  /\ running \in BOOLEAN
  /\ done \in BOOLEAN
====
